---- MODULE Spec2Model ----
(***************************************************************************)
(* A model of package optional (martinohmann/optional): the *Optional      *)
(* container, its constructors, its transformation and extraction methods, *)
(* the reflection based nil detection (isNil) and the reflection based     *)
(* destination write (into).                                               *)
(*                                                                         *)
(* Go values that travel through interface{} are records [t, v]: t is the  *)
(* dynamic type as Go prints it, v the datum.  For the reference kinds     *)
(* (pointer, map, slice, chan, func) v is an identity, 0 being the nil     *)
(* reference.  For *Optional v is the address of an Optional on the heap,  *)
(* 0 being the nil *Optional.  For the struct Optional v is the content of  *)
(* its value field.  The untyped nil is NilV.                              *)
(***************************************************************************)
EXTENDS Integers, Sequences, FiniteSets, TLC

VARIABLES heap, res

vars == <<heap, res>>

\* The number of Optional structs that may be allocated, emptyOptional included.
MaxHeap == 3

\* The number of distinct non-nil references of each reference type.
MaxRef == 1

-----------------------------------------------------------------------------
(* Go values *)

NilV == [t |-> "nil", v |-> 0]

RefTypes == {"*errors.errorString", "map[string]int", "[]int", "chan int", "func()"}

\* reflect.Kind of a dynamic type.
Kind(t) ==
    CASE t = "int" -> "int"
      [] t = "string" -> "string"
      [] t = "bool" -> "bool"
      [] t = "Foo" -> "struct"
      [] t = "Optional" -> "struct"
      [] t = "[3]int" -> "array"
      [] t = "*errors.errorString" -> "ptr"
      [] t = "*Optional" -> "ptr"
      [] t = "map[string]int" -> "map"
      [] t = "[]int" -> "slice"
      [] t = "chan int" -> "chan"
      [] t = "func()" -> "func"
      [] OTHER -> "invalid"

OptPtr(a) == [t |-> "*Optional", v |-> a]

BoolV(b) == [t |-> "bool", v |-> b]

StrV(s) == [t |-> "string", v |-> s]

\* An Optional struct by value: v is the content of its value field.
OptStruct(value) == [t |-> "Optional", v |-> value]

\* The values a caller can pass or a callback can return when n Optionals exist.
Vals(n) ==
    {NilV}
    \cup {[t |-> "int", v |-> 42]}
    \cup {StrV("foo"), StrV("bar")}
    \cup {BoolV(TRUE)}
    \cup {[t |-> "Foo", v |-> 0]}
    \cup {OptStruct(NilV)}
    \cup {[t |-> "[3]int", v |-> 0]}
    \cup {[t |-> rt, v |-> i] : rt \in RefTypes, i \in 0..MaxRef}
    \cup {OptPtr(a) : a \in 0..n}

\* The null-like values of the specification: the untyped nil and the nil
\* pointer, map, slice, channel and function.
NullLike(value) ==
    \/ value = NilV
    \/ /\ Kind(value.t) \in {"ptr", "map", "slice", "chan", "func"}
       /\ value.v = 0

-----------------------------------------------------------------------------
(* Outcomes of a call: a normal return or a panic, with the heap after it *)

(* calls counts the invocations of the callbacks the call received:         *)
(* <<invocations of its first callback, invocations of its second>>; given *)
(* is the value the first callback was invoked with, NilV for a callback   *)
(* without parameter.                                                      *)

Ret(value, h) ==
    [out |-> "return", msg |-> "", ret |-> value, heap |-> h, calls |-> <<0, 0>>,
     given |-> NilV]

Panic(m, h) ==
    [out |-> "panic", msg |-> m, ret |-> NilV, heap |-> h, calls |-> <<0, 0>>,
     given |-> NilV]

\* The outcome r of a callee, reached after invoking the first callback once.
Invoked(r) == [r EXCEPT !.calls = <<1, 0>>]

\* The outcome r of a callee, reached after invoking the first callback once
\* with value.
InvokedWith(r, value) == [r EXCEPT !.calls = <<1, 0>>, !.given = value]

\* var emptyOptional = &Optional{} : the Optional at address 1.
emptyOptional == 1

\* func Empty() *Optional
Empty(h) == Ret(OptPtr(emptyOptional), h)

\* &Optional{value}: a new Optional at the next free address.
NewOptional(value, h) == Ret(OptPtr(Len(h) + 1), Append(h, value))

\* reflect.Value.IsNil: defined for chan, func, map, pointer and slice values,
\* panics with a *reflect.ValueError for every other kind.
ReflectIsNil(value) ==
    IF Kind(value.t) \in {"chan", "func", "map", "ptr", "slice"}
    THEN IF value.v = 0 THEN "true" ELSE "false"
    ELSE "panic"

ReflectIsNilMsg(value) ==
    "reflect: call of reflect.Value.IsNil on " \o Kind(value.t) \o " Value"

\* func isNil(value interface{}) bool; "panic" when reflect panics.
isNil(value) ==
    IF value = NilV
    THEN "true"
    ELSE IF Kind(value.t) \in {"ptr", "map", "array", "chan", "slice"}
         THEN ReflectIsNil(value)
         ELSE "false"

\* func Of(value interface{}) *Optional
Of(value, h) ==
    LET n == isNil(value) IN
    IF n = "panic" THEN Panic(ReflectIsNilMsg(value), h)
    ELSE IF n = "true" THEN Panic("optional.Of: value must not be nil", h)
    ELSE NewOptional(value, h)

\* func OfNilable(value interface{}) *Optional
OfNilable(value, h) ==
    LET n == isNil(value) IN
    IF n = "panic" THEN Panic(ReflectIsNilMsg(value), h)
    ELSE IF n = "true" THEN Empty(h)
    ELSE NewOptional(value, h)

\* func (o *Optional) IsEmpty() bool
IsEmpty(o, h) == h[o] = NilV

\* func (o *Optional) IsPresent() bool
IsPresent(o, h) == h[o] # NilV

\* Go's == on two interface values: false when the dynamic types differ, a
\* run-time panic when they are identical and not comparable.
Comparable(t) == Kind(t) \notin {"slice", "map", "func"}

IfaceEq(a, b, h) ==
    IF a.t # b.t THEN Ret(BoolV(FALSE), h)
    ELSE IF ~Comparable(a.t)
         THEN Panic("runtime error: comparing uncomparable type " \o a.t, h)
         ELSE Ret(BoolV(a = b), h)

NilDeref == "runtime error: invalid memory address or nil pointer dereference"

\* func (o *Optional) Equals(other interface{}) bool
Equals(o, other, h) ==
    IF other = OptPtr(o) THEN Ret(BoolV(TRUE), h)
    ELSE IF other.t # "*Optional" THEN Ret(BoolV(FALSE), h)
    ELSE IF other.v = 0 THEN Panic(NilDeref, h)
    ELSE IfaceEq(h[other.v], h[o], h)

\* Filter that empties the receiver in place when the predicate fails.
Filter_Clearing(o, p, h) ==
    IF IsEmpty(o, h) THEN Ret(OptPtr(o), h)
    ELSE IF p THEN InvokedWith(Ret(OptPtr(o), h), h[o])
    ELSE InvokedWith(Ret(OptPtr(o), [h EXCEPT ![o] = NilV]), h[o])

\* Filter with the predicate's verdict inverted.
Filter_Inverted(o, p, h) ==
    IF IsEmpty(o, h) THEN Ret(OptPtr(o), h)
    ELSE IF ~p THEN InvokedWith(Ret(OptPtr(o), h), h[o])
    ELSE InvokedWith(Empty(h), h[o])

\* func (o *Optional) Filter(predicate PredicateFunc) *Optional
\* p is what predicate returns for the receiver's value.
Filter(o, p, h) ==
    IF IsEmpty(o, h) THEN Ret(OptPtr(o), h)
    ELSE IF p THEN InvokedWith(Ret(OptPtr(o), h), h[o])
    ELSE InvokedWith(Empty(h), h[o])

\* func (o *Optional) FlatMap(mapper MapFunc) *Optional
\* val is what mapper returns for the receiver's value.
FlatMap(o, val, h) ==
    IF IsEmpty(o, h) THEN Ret(OptPtr(o), h)
    ELSE IF val.t = "*Optional"
         THEN IF val.v = 0
              THEN InvokedWith(Panic("optional.FlatMap: mapper func returned nil *Optional",
                                     h), h[o])
              ELSE InvokedWith(Ret(val, h), h[o])
         ELSE InvokedWith(OfNilable(val, h), h[o])

\* func (o *Optional) Get() interface{}
Get(o, h) ==
    IF IsEmpty(o, h) THEN Panic("optional.Get: optional has no value", h)
    ELSE Ret(h[o], h)

\* func (o *Optional) IfPresent(action ActionFunc)
IfPresent(o, h) ==
    IF IsPresent(o, h) THEN InvokedWith(Ret(NilV, h), h[o]) ELSE Ret(NilV, h)

\* func (o *Optional) IfPresentOrElse(action ActionFunc, emptyAction EmptyActionFunc)
IfPresentOrElse(o, h) ==
    IF IsPresent(o, h) THEN InvokedWith(Ret(NilV, h), h[o])
    ELSE [Ret(NilV, h) EXCEPT !.calls = <<0, 1>>]

\* func (o *Optional) Map(mapper MapFunc) *Optional
\* val is what mapper returns for the receiver's value.
Map(o, val, h) ==
    IF IsEmpty(o, h) THEN Ret(OptPtr(o), h)
    ELSE InvokedWith(OfNilable(val, h), h[o])

\* Or with the supplier invoked before the receiver is looked at.
Or_Eager(o, val, h) ==
    IF IsPresent(o, h) THEN Invoked(Ret(OptPtr(o), h))
    ELSE Invoked(Of(val, h))

\* func (o *Optional) Or(supplier SupplyFunc) *Optional
\* val is what supplier returns.
Or(o, val, h) ==
    IF IsPresent(o, h) THEN Ret(OptPtr(o), h)
    ELSE Invoked(Of(val, h))

\* func (o *Optional) OrElse(other interface{}) interface{}
OrElse(o, other, h) ==
    IF IsPresent(o, h) THEN Ret(h[o], h) ELSE Ret(other, h)

\* OrElseGet with the supplier's result checked as Or checks it.
OrElseGet_NilChecked(o, val, h) ==
    IF IsPresent(o, h) THEN Ret(h[o], h)
    ELSE IF isNil(val) = "true"
         THEN Invoked(Panic("optional.OrElseGet: value must not be nil", h))
         ELSE Invoked(Ret(val, h))

\* func (o *Optional) OrElseGet(supplier SupplyFunc) interface{}
OrElseGet(o, val, h) ==
    IF IsPresent(o, h) THEN Ret(h[o], h) ELSE Invoked(Ret(val, h))

\* func (o *Optional) OrElsePanic(message string) interface{}
OrElsePanic(o, message, h) ==
    IF IsPresent(o, h) THEN Ret(h[o], h) ELSE Panic(message, h)

\* fmt.Sprintf("%#v", value) for a value inside another value (depth > 0):
\* a pointer is printed as its address.
GoSyntaxInner(value) ==
    CASE value = NilV -> "interface {}(nil)"
      [] value.t = "int" -> ToString(value.v)
      [] value.t = "string" -> "\"" \o value.v \o "\""
      [] value.t = "bool" -> IF value.v THEN "true" ELSE "false"
      [] value.t = "Foo" -> "optional.Foo{}"
      [] value.t = "[3]int" -> "[3]int{0, 0, 0}"
      [] value.t = "Optional" -> "optional.Optional{...}"
      [] value.t = "*Optional" -> "(*optional.Optional)(0x" \o ToString(value.v) \o ")"
      [] value.t = "*errors.errorString" ->
            "(*errors.errorString)(0x" \o ToString(value.v) \o ")"
      [] OTHER -> IF value.v = 0
                  THEN "(" \o value.t \o ")(nil)"
                  ELSE "(" \o value.t \o ")(0x" \o ToString(value.v) \o ")"

\* fmt.Sprintf("%#v", value) for the payload of an Optional: a pointer to a
\* struct is printed as & and the struct, a struct with its fields.
GoSyntax(value, h) ==
    CASE value.t = "Optional" ->
            "optional.Optional{value:" \o GoSyntaxInner(value.v) \o "}"
      [] value.t = "*Optional" ->
            "&optional.Optional{value:" \o GoSyntaxInner(h[value.v]) \o "}"
      [] value.t = "*errors.errorString" /\ value.v # 0 ->
            "&errors.errorString{s:\"some error\"}"
      [] OTHER -> GoSyntaxInner(value)

\* func (o *Optional) String() string
String(o, h) ==
    IF IsPresent(o, h) THEN Ret(StrV("Optional(" \o GoSyntax(h[o], h) \o ")"), h)
    ELSE Ret(StrV("Optional.Empty"), h)

-----------------------------------------------------------------------------
(* Destinations of the Into methods *)

(* The dst argument of an Into method is described by its form:            *)
(*   "ptr"    &x, x a variable of static type `type` holding `old`; when   *)
(*            x is the Optional at a heap address, addr is that address,   *)
(*            otherwise addr is 0;                                         *)
(*   "nilptr" a nil pointer of type *`type`;                               *)
(*   "value"  a variable of type `type` passed by value, holding `old`;    *)
(*   "nil"    the untyped nil.                                             *)
(* A variable of interface type holds a value of any type implementing it, *)
(* or NilV.                                                                *)

NoDst == [form |-> "none", type |-> "nil", old |-> NilV, addr |-> 0]

Dsts ==
    {[form |-> "ptr", type |-> "string", old |-> StrV(""), addr |-> 0],
     [form |-> "ptr", type |-> "string", old |-> StrV("bar"), addr |-> 0],
     [form |-> "ptr", type |-> "int", old |-> [t |-> "int", v |-> 0], addr |-> 0],
     [form |-> "ptr", type |-> "[]int", old |-> [t |-> "[]int", v |-> 0], addr |-> 0],
     [form |-> "ptr", type |-> "error", old |-> NilV, addr |-> 0],
     [form |-> "ptr", type |-> "interface {}", old |-> NilV, addr |-> 0],
     [form |-> "nilptr", type |-> "string", old |-> NilV, addr |-> 0],
     [form |-> "value", type |-> "string", old |-> StrV(""), addr |-> 0],
     [form |-> "nil", type |-> "nil", old |-> NilV, addr |-> 0]}

\* The destinations that are an existing *Optional: the variable written is
\* the Optional struct it points to.
OptDsts(h) ==
    {[form |-> "ptr", type |-> "Optional", old |-> OptStruct(h[a]), addr |-> a] :
        a \in 1..Len(h)}

\* reflect.Type.AssignableTo for the types of the model: identical types, or
\* an interface type the value's type implements.
AssignableTo(t, type) ==
    \/ t = type
    \/ type = "interface {}"
    \/ type = "error" /\ t = "*errors.errorString"

\* The heap after the store of src through dst: a destination that is an
\* Optional on the heap receives the struct's value field.
Store(h, dst, src) ==
    IF dst.addr = 0 THEN h ELSE [h EXCEPT ![dst.addr] = src.v]

\* The outcome of a write to a destination: cell is what the caller's
\* variable holds afterwards.
Written(r, value) == [r EXCEPT !.ret = NilV] @@ [cell |-> value]

\* into with the checks of Value.Set but without its store.
into_NoStore(src, dst, h) ==
    IF dst.form \in {"nil", "nilptr"}
    THEN Written(Panic("reflect: call of reflect.Value.Set on zero Value", h), dst.old)
    ELSE IF dst.form # "ptr"
    THEN Written(Panic("reflect: reflect.Value.Set using unaddressable value", h), dst.old)
    ELSE IF src = NilV
    THEN Written(Panic("reflect: call of reflect.Value.Set on zero Value", h), dst.old)
    ELSE IF ~AssignableTo(src.t, dst.type)
    THEN Written(Panic("reflect.Set: value of type " \o src.t
                           \o " is not assignable to type " \o dst.type, h), dst.old)
    ELSE Written(Ret(NilV, h), dst.old)

\* func into(src, dst interface{})
\* reflect.Indirect(reflect.ValueOf(dst)) is the zero Value for the untyped
\* nil and for a nil pointer, the addressable variable for a non-nil pointer
\* and dst's own unaddressable Value otherwise; Value.Set panics on a zero
\* or unaddressable receiver, on a zero argument and on a type that is not
\* assignable, and otherwise copies src into the variable.
into(src, dst, h) ==
    IF dst.form \in {"nil", "nilptr"}
    THEN Written(Panic("reflect: call of reflect.Value.Set on zero Value", h), dst.old)
    ELSE IF dst.form # "ptr"
    THEN Written(Panic("reflect: reflect.Value.Set using unaddressable value", h), dst.old)
    ELSE IF src = NilV
    THEN Written(Panic("reflect: call of reflect.Value.Set on zero Value", h), dst.old)
    ELSE IF ~AssignableTo(src.t, dst.type)
    THEN Written(Panic("reflect.Set: value of type " \o src.t
                           \o " is not assignable to type " \o dst.type, h), dst.old)
    ELSE Written(Ret(NilV, Store(h, dst, src)), src)

\* into(r.ret, dst) where r is the outcome of computing the source value: a
\* panic of that computation leaves the destination alone.
IntoOf(r, dst) ==
    IF r.out = "panic" THEN Written(r, dst.old)
    ELSE [into(r.ret, dst, r.heap) EXCEPT !.calls = r.calls, !.given = r.given]

\* func (o *Optional) GetInto(dst interface{})
GetInto(o, dst, h) == IntoOf(Get(o, h), dst)

\* func (o *Optional) OrElseInto(other, dst interface{})
OrElseInto(o, other, dst, h) == IntoOf(OrElse(o, other, h), dst)

\* func (o *Optional) OrElseGetInto(supplier SupplyFunc, dst interface{})
OrElseGetInto(o, val, dst, h) == IntoOf(OrElseGet(o, val, h), dst)

\* func (o *Optional) OrElsePanicInto(message string, dst interface{})
OrElsePanicInto(o, message, dst, h) == IntoOf(OrElsePanic(o, message, h), dst)

-----------------------------------------------------------------------------
(* The program: a caller that makes one call after the other.  res is the  *)
(* record of the last call: the method, the receiver's address (0 for a    *)
(* function), the argument (for a callback, what it returns), the          *)
(* destination, and the outcome.                                           *)

NoRes ==
    [op |-> "none", recv |-> 0, arg |-> NilV, dst |-> NoDst, out |-> "return",
     msg |-> "", ret |-> NilV, cell |-> NilV, calls |-> <<0, 0>>, given |-> NilV]

\* The caller is done with the previous call and may make the next one.
Idle == res = NoRes

\* A call that would allocate beyond MaxHeap is not made.
DoInto(op, recv, arg, dst, r) ==
    /\ Len(r.heap) <= MaxHeap
    /\ heap' = r.heap
    /\ res' = [op |-> op, recv |-> recv, arg |-> arg, dst |-> dst, out |-> r.out,
               msg |-> r.msg, ret |-> r.ret, cell |-> r.cell, calls |-> r.calls,
               given |-> r.given]

Do(op, recv, arg, r) == DoInto(op, recv, arg, NoDst, r @@ [cell |-> NilV])

Addrs == 1..Len(heap)

Args == Vals(Len(heap))

\* The messages passed to OrElsePanic.
Messages == {"some message", "optional.Get: optional has no value"}

\* The values handed to the Into methods as fallback.
IntoArgs ==
    {NilV, StrV("foo"), [t |-> "int", v |-> 42], [t |-> "[]int", v |-> 1],
     [t |-> "*errors.errorString", v |-> 1], [t |-> "*errors.errorString", v |-> 0],
     OptStruct(NilV)}

\* The destinations handed to the Into methods.
IntoDsts == Dsts \cup OptDsts(heap)

Init ==
    /\ heap = <<NilV>>
    /\ res = NoRes

CallEmpty ==
    /\ Idle
    /\ Do("Empty", 0, NilV, Empty(heap))

\* &Optional{} written by the caller.
CallNew ==
    /\ Idle
    /\ Do("new", 0, NilV, NewOptional(NilV, heap))

CallOf ==
    /\ Idle
    /\ \E value \in Args : Do("Of", 0, value, Of(value, heap))

CallOfNilable ==
    /\ Idle
    /\ \E value \in Args : Do("OfNilable", 0, value, OfNilable(value, heap))

CallEquals ==
    /\ Idle
    /\ \E o \in Addrs, other \in Args : Do("Equals", o, other, Equals(o, other, heap))

CallFilter ==
    /\ Idle
    /\ \E o \in Addrs, p \in BOOLEAN : Do("Filter", o, BoolV(p), Filter(o, p, heap))

CallFlatMap ==
    /\ Idle
    /\ \E o \in Addrs, val \in Args : Do("FlatMap", o, val, FlatMap(o, val, heap))

CallGet ==
    /\ Idle
    /\ \E o \in Addrs : Do("Get", o, NilV, Get(o, heap))

CallGetInto ==
    /\ Idle
    /\ \E o \in Addrs, dst \in IntoDsts : DoInto("GetInto", o, NilV, dst, GetInto(o, dst, heap))

CallIfPresent ==
    /\ Idle
    /\ \E o \in Addrs : Do("IfPresent", o, NilV, IfPresent(o, heap))

CallIfPresentOrElse ==
    /\ Idle
    /\ \E o \in Addrs : Do("IfPresentOrElse", o, NilV, IfPresentOrElse(o, heap))

CallIsEmpty ==
    /\ Idle
    /\ \E o \in Addrs : Do("IsEmpty", o, NilV, Ret(BoolV(IsEmpty(o, heap)), heap))

CallIsPresent ==
    /\ Idle
    /\ \E o \in Addrs : Do("IsPresent", o, NilV, Ret(BoolV(IsPresent(o, heap)), heap))

CallMap ==
    /\ Idle
    /\ \E o \in Addrs, val \in Args : Do("Map", o, val, Map(o, val, heap))

CallOr ==
    /\ Idle
    /\ \E o \in Addrs, val \in Args : Do("Or", o, val, Or(o, val, heap))

CallOrElse ==
    /\ Idle
    /\ \E o \in Addrs, other \in Args : Do("OrElse", o, other, OrElse(o, other, heap))

CallOrElseInto ==
    /\ Idle
    /\ \E o \in Addrs, other \in IntoArgs, dst \in IntoDsts :
       DoInto("OrElseInto", o, other, dst, OrElseInto(o, other, dst, heap))

CallOrElseGet ==
    /\ Idle
    /\ \E o \in Addrs, val \in Args : Do("OrElseGet", o, val, OrElseGet(o, val, heap))

CallOrElseGetInto ==
    /\ Idle
    /\ \E o \in Addrs, val \in IntoArgs, dst \in IntoDsts :
       DoInto("OrElseGetInto", o, val, dst, OrElseGetInto(o, val, dst, heap))

CallOrElsePanic ==
    /\ Idle
    /\ \E o \in Addrs, message \in Messages :
       Do("OrElsePanic", o, StrV(message), OrElsePanic(o, message, heap))

CallOrElsePanicInto ==
    /\ Idle
    /\ \E o \in Addrs, message \in Messages, dst \in IntoDsts :
       DoInto("OrElsePanicInto", o, StrV(message), dst,
       OrElsePanicInto(o, message, dst, heap))

CallString ==
    /\ Idle
    /\ \E o \in Addrs : Do("String", o, NilV, String(o, heap))

\* The caller is done with the outcome of the last call and goes on to its
\* next statement.
Continue ==
    /\ res # NoRes
    /\ res' = NoRes
    /\ UNCHANGED heap

Next ==
    \/ CallEmpty
    \/ CallNew
    \/ CallOf
    \/ CallOfNilable
    \/ CallEquals
    \/ CallFilter
    \/ CallFlatMap
    \/ CallGet
    \/ CallGetInto
    \/ CallIfPresent
    \/ CallIfPresentOrElse
    \/ CallIsEmpty
    \/ CallIsPresent
    \/ CallMap
    \/ CallOr
    \/ CallOrElse
    \/ CallOrElseInto
    \/ CallOrElseGet
    \/ CallOrElseGetInto
    \/ CallOrElsePanic
    \/ CallOrElsePanicInto
    \/ CallString
    \/ Continue

Spec == Init /\ [][Next]_vars

-----------------------------------------------------------------------------
(* Properties *)

\* The last call was op, made on a receiver that holds a value.
OnPresent(op) == res.op = op /\ IsPresent(res.recv, heap)

\* The last call was op, made on a receiver that holds no value.
OnEmpty(op) == res.op = op /\ IsEmpty(res.recv, heap)

\* The last call returned a non-nil *Optional.
ReturnedOptional ==
    /\ res.out = "return"
    /\ res.ret.t = "*Optional"
    /\ res.ret.v \in 1..Len(heap)

ReturnedEmpty == ReturnedOptional /\ IsEmpty(res.ret.v, heap)

\* The last call returned a present Optional that wraps value.
ReturnedPresent(value) ==
    /\ ReturnedOptional
    /\ IsPresent(res.ret.v, heap)
    /\ heap[res.ret.v] = value

PanickedWith(m) == res.out = "panic" /\ res.msg = m

\* C1: every Optional that exists and reports IsPresent() holds a payload
\* that is not null-like (not the untyped nil, nor a nil pointer, map,
\* slice, channel or function).
C1_PresentNeverNullLike ==
    \A a \in 1..Len(heap) : IsPresent(a, heap) => ~NullLike(heap[a])

\* C2: for every null-like v, Of(v) panics with "optional.Of: value must not
\* be nil", Or on an empty Optional panics the same way when the supplier
\* returns v, and OfNilable(v) is empty.
C2_NullLikeRejected ==
    /\ (res.op = "Of" /\ NullLike(res.arg))
          => PanickedWith("optional.Of: value must not be nil")
    /\ (OnEmpty("Or") /\ NullLike(res.arg))
          => PanickedWith("optional.Of: value must not be nil")
    /\ (res.op = "OfNilable" /\ NullLike(res.arg)) => ReturnedEmpty

\* C3: OfNilable never fails: it returns a present Optional wrapping the
\* value when the value is not null-like and an empty one otherwise.
C3_OfNilableNeverFails ==
    res.op = "OfNilable" =>
        IF NullLike(res.arg) THEN ReturnedEmpty ELSE ReturnedPresent(res.arg)

\* C4: FlatMap on a present Optional returns the mapper's non-nil *Optional
\* itself, panics with "optional.FlatMap: mapper func returned nil
\* *Optional" on a nil *Optional, and otherwise wraps the mapper's result as
\* OfNilable does, a null-like result giving an empty Optional; FlatMap on
\* an empty Optional returns an empty Optional.
C4_FlatMap ==
    /\ OnEmpty("FlatMap") => ReturnedEmpty
    /\ OnPresent("FlatMap") =>
          IF res.arg.t = "*Optional"
          THEN IF res.arg.v = 0
               THEN PanickedWith("optional.FlatMap: mapper func returned nil *Optional")
               ELSE res.out = "return" /\ res.ret = res.arg
          ELSE IF NullLike(res.arg) THEN ReturnedEmpty
               ELSE ReturnedPresent(res.arg)

\* C5: Map on a present Optional wraps the mapper's result once more when it
\* is not null-like, also when the result is itself an Optional, and gives
\* an empty Optional without failing when it is null-like, a nil *Optional
\* included; Map on an empty Optional returns an empty Optional.
C5_Map ==
    /\ OnEmpty("Map") => ReturnedEmpty
    /\ OnPresent("Map") =>
          IF NullLike(res.arg) THEN ReturnedEmpty
          ELSE ReturnedPresent(res.arg) /\ res.ret # res.arg

IntoOps == {"GetInto", "OrElseInto", "OrElseGetInto", "OrElsePanicInto"}

\* The outcome of the method that returns the value which the last call, an
\* Into method, writes.
Counterpart ==
    CASE res.op = "GetInto" -> Get(res.recv, heap)
      [] res.op = "OrElseInto" -> OrElse(res.recv, res.arg, heap)
      [] res.op = "OrElseGetInto" -> OrElseGet(res.recv, res.arg, heap)
      [] res.op = "OrElsePanicInto" -> OrElsePanic(res.recv, res.arg.v, heap)

\* The destination's element type accepts a value of type t: the same type,
\* or an interface type that t implements.
Accepts(type, t) ==
    \/ type = t
    \/ type = "interface {}"
    \/ type = "error" /\ t = "*errors.errorString"

\* C6: a destination write through something that is not a pointer panics
\* with "optional.GetInto: dst must be a pointer type", and a write of a
\* value whose type the destination does not accept panics with
\* "optional.GetInto: value of type T is not assignable to type D".
C6_IntoPanicValues ==
    (res.op \in IntoOps /\ Counterpart.out = "return") =>
        /\ res.dst.form # "ptr"
              => PanickedWith("optional.GetInto: dst must be a pointer type")
        /\ (/\ res.dst.form = "ptr"
            /\ Counterpart.ret # NilV
            /\ ~Accepts(res.dst.type, Counterpart.ret.t))
              => PanickedWith("optional.GetInto: value of type " \o Counterpart.ret.t
                                  \o " is not assignable to type " \o res.dst.type)

\* C7: an Into method leaves in the destination exactly the value its
\* counterpart returns, whenever the destination's element type accepts
\* that value: the receiver's value for GetInto and OrElsePanicInto on a
\* present Optional, other for OrElseInto and the supplier's result for
\* OrElseGetInto on an empty one.
C7_IntoStoresCounterpart ==
    (/\ res.op \in IntoOps
     /\ res.dst.form = "ptr"
     /\ Counterpart.out = "return"
     /\ Counterpart.ret # NilV
     /\ Accepts(res.dst.type, Counterpart.ret.t))
    => /\ res.out = "return"
       /\ res.cell = Counterpart.ret
       /\ IsPresent(res.recv, heap) => res.cell = heap[res.recv]
       /\ (IsEmpty(res.recv, heap) /\ res.op \in {"OrElseInto", "OrElseGetInto"})
             => res.cell = res.arg

\* An interface typed destination that held nothing now holds the fallback.
C7_Witness ==
    /\ OnEmpty("OrElseInto")
    /\ res.dst = [form |-> "ptr", type |-> "error", old |-> NilV, addr |-> 0]
    /\ res.arg = [t |-> "*errors.errorString", v |-> 1]
    /\ res.cell = res.arg

\* C8: on a present Optional Get, OrElse, OrElseGet and OrElsePanic return
\* its value; on an empty one Get panics with "optional.Get: optional has no
\* value", OrElse returns other, OrElseGet returns the supplier's result
\* whatever it is, and OrElsePanic panics with the caller's message.
C8_Extraction ==
    /\ (\E op \in {"Get", "OrElse", "OrElseGet", "OrElsePanic"} : OnPresent(op))
          => res.out = "return" /\ res.ret = heap[res.recv]
    /\ OnEmpty("Get") => PanickedWith("optional.Get: optional has no value")
    /\ OnEmpty("OrElse") => res.out = "return" /\ res.ret = res.arg
    /\ OnEmpty("OrElseGet") => res.out = "return" /\ res.ret = res.arg
    /\ OnEmpty("OrElsePanic") => PanickedWith(res.arg.v)

\* A supplier that returns nil: OrElseGet returns nil.
C8_Witness ==
    /\ OnEmpty("OrElseGet")
    /\ res.arg = NilV
    /\ res.out = "return"
    /\ res.ret = NilV

\* C9: Equals returns true exactly when other is the receiver itself or an
\* Optional whose payload equals the receiver's (reference payloads by
\* identity), and false for everything else; it does not fail.
C9_Equals ==
    res.op = "Equals" =>
        /\ res.out = "return"
        /\ res.ret = BoolV(\/ res.arg = OptPtr(res.recv)
                           \/ /\ res.arg.t = "*Optional"
                              /\ res.arg.v # 0
                              /\ heap[res.arg.v] = heap[res.recv])

MapperGaveEmptyOptional ==
    \/ /\ res.arg.t = "*Optional"
       /\ res.arg.v # 0
       /\ IsEmpty(res.arg.v, heap)
    \/ res.arg = OptStruct(NilV)

\* C11: FlatMap on a present Optional returns an empty Optional whenever the
\* mapper returns an empty Optional, be it Empty(), a fresh &Optional{} or
\* the struct Optional{} by value.
C11_FlatMapEmptyForms ==
    (OnPresent("FlatMap") /\ MapperGaveEmptyOptional) => ReturnedEmpty

\* C12: a callback is invoked once when its branch is reached and not at
\* all otherwise.  On a present Optional IfPresent and IfPresentOrElse invoke
\* action once with the value and never emptyAction, Filter, Map and FlatMap
\* invoke their callback once with the value, and Or and OrElseGet do not
\* invoke the supplier.  On an empty Optional IfPresentOrElse invokes
\* emptyAction once and never action, Or and OrElseGet invoke the supplier
\* once, and IfPresent, Filter, Map and FlatMap invoke nothing.
C12_CallbacksOnce ==
    /\ (\E op \in {"IfPresent", "IfPresentOrElse", "Filter", "Map", "FlatMap"} :
            OnPresent(op))
          => res.calls = <<1, 0>> /\ res.given = heap[res.recv]
    /\ (\E op \in {"Or", "OrElseGet"} : OnPresent(op)) => res.calls = <<0, 0>>
    /\ (\E op \in {"IfPresent", "Filter", "Map", "FlatMap"} : OnEmpty(op))
          => res.calls = <<0, 0>>
    /\ OnEmpty("IfPresentOrElse") => res.calls = <<0, 1>>
    /\ (\E op \in {"Or", "OrElseGet"} : OnEmpty(op)) => res.calls = <<1, 0>>

\* On an empty Optional only emptyAction ran.
C12_Witness ==
    /\ OnEmpty("IfPresentOrElse")
    /\ res.calls = <<0, 1>>

\* The Optionals that existed before a step hold after it what they held
\* before it.
NoneMutated ==
    /\ Len(heap') >= Len(heap)
    /\ \A a \in 1..Len(heap) : heap'[a] = heap[a]

\* After a step IsPresent is the negation of IsEmpty, as a call reports it
\* and for every Optional.
PresentIsNotEmpty ==
    /\ res'.op = "IsPresent" => res'.ret = BoolV(~IsEmpty(res'.recv, heap'))
    /\ res'.op = "IsEmpty" => res'.ret = BoolV(~IsPresent(res'.recv, heap'))
    /\ \A a \in 1..Len(heap') : IsPresent(a, heap') = ~IsEmpty(a, heap')

\* C13 as stated: no call, failing calls and the Into methods included,
\* changes the state or the payload of an existing Optional, IsPresent is the
\* negation of IsEmpty, and the Optional that Empty() returns stays empty.
C13_NeverMutated ==
    [][/\ NoneMutated
       /\ PresentIsNotEmpty
       /\ IsEmpty(emptyOptional, heap')]_vars

\* The step is an Into method that was handed the Optional at address a as
\* its destination.
StoredThrough(a) ==
    /\ res'.op \in IntoOps
    /\ res'.dst.addr = a

\* C13 amended: an existing Optional changes only in a call of an Into method
\* whose destination it is; IsPresent is the negation of IsEmpty.
C13_MutatedOnlyAsDestination ==
    [][/\ Len(heap') >= Len(heap)
       /\ \A a \in 1..Len(heap) : heap'[a] # heap[a] => StoredThrough(a)
       /\ PresentIsNotEmpty]_vars

\* An Into method has written the receiver's value to a variable of the
\* caller and the receiver still holds it.
C13_Witness ==
    /\ OnPresent("GetInto")
    /\ res.out = "return"
    /\ res.dst.addr = 0
    /\ res.cell = heap[res.recv]

====
